---- MODULE Spec2Model ----
(***************************************************************************)
(* State-machine model of market.py: synchronisation of stock levels and   *)
(* prices between an inventory snapshot and the offers listed under the    *)
(* FBS and DBS campaigns of the marketplace.                               *)
(*                                                                         *)
(* Texts that the program parses (quantities, prices) are sequences of     *)
(* one-character strings, so that parsing is computed and not assumed.     *)
(* Product codes and offer ids are plain strings: the program only         *)
(* compares them.  The Python value None is written None.                  *)
(***************************************************************************)
EXTENDS Integers, Sequences, FiniteSets, TLC

\* ------------------------------------------------------------------ bounds
MaxInv == 2          \* records of an inventory snapshot, direct reconciler calls
MaxOffers == 2       \* length of an offer-id list, direct reconciler calls
MaxInvMain == 1      \* records of the snapshot that download_stock returns in main
MaxOffersMain == 1   \* offers listed under one campaign in a run of main
MaxPages == 2        \* pages of one campaign's listing, direct get_offer_ids calls
MaxPageLen == 1      \* entries on one page of such a listing
MaxBatches == 2      \* full batches of a large payload
Slack == 1           \* how far a large payload's length is from a multiple of the limit

\* ------------------------------------------------------- program constants
PageLimit == 200
StockBatchLimit == 2000
PriceBatchLimit == 500
AmpleStock == 100
ReservedStock == 0
MissingStock == 0

None == "None"
Campaigns == {"FBS", "DBS"}
TransportErrors == {"ReadTimeout", "ConnectionError", "HTTPError"}

\* --------------------------------------------------------------- input sets
Codes == {"sku1", "sku2"}
Skus == {"sku1", "sku2", "sku3"}
QuantityTexts ==
    { <<">", "1", "0">>, <<"1">>, <<"4", "2">>, <<"-", "5">>,
      <<"a", "b", "c">>, <<" ", "1">> }
PriceTexts ==
    { <<"1", " ", "5", "0", "0", ".", "0", "0">>, <<"2", "0", "0", "0">> }
Dates == {"2023-10-10T12:34:56Z", "2023-10-10T12:34:57Z"}

SeqsUpTo(S, n) == UNION {[1..k -> S] : k \in 0..n}

\* create_stocks reads the code and the quantity of a record, create_prices
\* its code and its price
StockRecords == [Kod : Codes, Kolichestvo : QuantityTexts, Tsena : {<<"2", "0", "0", "0">>}]
PriceRecords == [Kod : Codes, Kolichestvo : {<<"4", "2">>}, Tsena : PriceTexts]

Min(a, b) == IF a < b THEN a ELSE b

\* ------------------------------------------------------------ Python lists
\* x in lst
In(x, lst) == \E i \in 1..Len(lst) : lst[i] = x

\* lst.remove(x): drops the first element equal to x
Remove(lst, x) ==
    LET i == CHOOSE k \in 1..Len(lst) :
                 lst[k] = x /\ \A j \in 1..(k - 1) : lst[j] # x
    IN  SubSeq(lst, 1, i - 1) \o SubSeq(lst, i + 1, Len(lst))

\* ------------------------------------------------------------- Python int()
DigitChars == <<"0", "1", "2", "3", "4", "5", "6", "7", "8", "9">>
IsDigit(c) == \E n \in 1..10 : DigitChars[n] = c
DigitVal(c) == (CHOOSE n \in 1..10 : DigitChars[n] = c) - 1

RECURSIVE DigitsValue(_)
DigitsValue(d) ==
    IF Len(d) = 0 THEN 0
    ELSE 10 * DigitsValue(SubSeq(d, 1, Len(d) - 1)) + DigitVal(d[Len(d)])

\* surrounding blanks are ignored by int()
Strip(s) ==
    LET idx == {i \in 1..Len(s) : s[i] # " "}
    IN  IF idx = {} THEN <<>>
        ELSE SubSeq(s, CHOOSE i \in idx : \A j \in idx : i <= j,
                       CHOOSE i \in idx : \A j \in idx : i >= j)

\* int(text): optional sign, then one or more decimal digits; anything else
\* raises ValueError (ok = FALSE).  The texts of this model hold no
\* underscore and no non-ASCII digit.
PyInt(text) ==
    LET s == Strip(text)
        signed == Len(s) > 0 /\ s[1] \in {"+", "-"}
        d == IF signed THEN SubSeq(s, 2, Len(s)) ELSE s
    IN  IF Len(d) > 0 /\ \A i \in 1..Len(d) : IsDigit(d[i])
        THEN [ok |-> TRUE,
              value |-> IF signed /\ s[1] = "-" THEN 0 - DigitsValue(d)
                        ELSE DigitsValue(d)]
        ELSE [ok |-> FALSE, value |-> 0]

\* --------------------------------------------------------- create_stocks
\* the policy without its branch for "1"
NormalizeNoReserved(count) ==
    IF count = <<">", "1", "0">> THEN [ok |-> TRUE, value |-> AmpleStock]
    ELSE PyInt(count)

\* the policy with a default in place of the ValueError
NormalizeLenient(count) ==
    IF count = <<">", "1", "0">> THEN [ok |-> TRUE, value |-> AmpleStock]
    ELSE IF count = <<"1">> THEN [ok |-> TRUE, value |-> ReservedStock]
    ELSE [ok |-> TRUE, value |-> PyInt(count).value]

\* the quantity policy of the matching loop
Normalize(count) ==
    IF count = <<">", "1", "0">> THEN [ok |-> TRUE, value |-> AmpleStock]
    ELSE IF count = <<"1">> THEN [ok |-> TRUE, value |-> ReservedStock]
    ELSE PyInt(count)

StockEntry(sku, warehouse_id, stock, date) ==
    [sku |-> sku, warehouseId |-> warehouse_id,
     items |-> <<[count |-> stock, type |-> "FIT", updatedAt |-> date]>>]

\* first loop: one entry per record whose code is still in offer_ids; the
\* code is then removed from offer_ids (the caller's list is mutated)
RECURSIVE MatchLoop(_, _, _, _, _, _)
MatchLoop(watch_remnants, i, offer_ids, stocks, warehouse_id, date) ==
    IF i > Len(watch_remnants)
    THEN [raised |-> FALSE, stocks |-> stocks, offer_ids |-> offer_ids]
    ELSE LET watch == watch_remnants[i]
             stock == Normalize(watch.Kolichestvo)
         IN  IF In(watch.Kod, offer_ids)
             THEN IF stock.ok
                  THEN MatchLoop(watch_remnants, i + 1,
                                 Remove(offer_ids, watch.Kod),
                                 Append(stocks, StockEntry(watch.Kod, warehouse_id,
                                                           stock.value, date)),
                                 warehouse_id, date)
                  ELSE [raised |-> TRUE, stocks |-> <<>>, offer_ids |-> offer_ids]
             ELSE MatchLoop(watch_remnants, i + 1, offer_ids, stocks,
                            warehouse_id, date)

\* second loop: a zero entry for every id left in offer_ids
TrailingPass(offer_ids, warehouse_id, date) ==
    [k \in 1..Len(offer_ids) |->
        StockEntry(offer_ids[k], warehouse_id, MissingStock, date)]

CreateStocks(watch_remnants, offer_ids, warehouse_id, date) ==
    LET m == MatchLoop(watch_remnants, 1, offer_ids, <<>>, warehouse_id, date)
    IN  IF m.raised THEN m
        ELSE [raised |-> FALSE,
              stocks |-> m.stocks \o TrailingPass(m.offer_ids, warehouse_id, date),
              offer_ids |-> m.offer_ids]

\* --------------------------------------------------------- create_prices
\* price_conversion of the seller module: the digits of the part of the
\* text before the decimal point, as an integer
PriceConversion(price) ==
    LET dots == {i \in 1..Len(price) : price[i] = "."}
        whole == IF dots = {} THEN price
                 ELSE SubSeq(price, 1, (CHOOSE i \in dots : \A j \in dots : i <= j) - 1)
    IN  DigitsValue(SelectSeq(whole, IsDigit))

PriceEntry(watch) ==
    [id |-> watch.Kod,
     price |-> [value |-> PriceConversion(watch.Tsena), currencyId |-> "RUR"]]

\* create_prices without its membership test
CreatePricesUnfiltered(watch_remnants, offer_ids) ==
    [k \in 1..Len(watch_remnants) |-> PriceEntry(watch_remnants[k])]

CreatePrices(watch_remnants, offer_ids) ==
    LET listed(watch) == In(watch.Kod, offer_ids)
        matched == SelectSeq(watch_remnants, listed)
    IN  [k \in 1..Len(matched) |-> PriceEntry(matched[k])]

\* ----------------------------------------------------------------- divide
\* divide of the seller module: consecutive chunks of n items
Divide(lst, n) ==
    [k \in 1..((Len(lst) + n - 1) \div n) |->
        SubSeq(lst, (k - 1) * n + 1, Min(k * n, Len(lst)))]

\* the stock payload pushed as a single batch
StockBatchesWhole(stocks) == <<stocks>>

\* list(divide(stocks, 2000))
StockBatches(stocks) == Divide(stocks, StockBatchLimit)

\* list(divide(prices, 500))
PriceBatches(prices) == Divide(prices, PriceBatchLimit)

\* ----------------------------------------------------- the marketplace API
\* The listing of a campaign is a sequence of pages, each a sequence of
\* shopSku values.  The first page answers the empty token; page k > 1
\* answers PageToken(k).
PageToken(k) == "page" \o ToString(k)

PageIndex(listing_c, page) ==
    IF page = "" THEN 1
    ELSE IF \E k \in 2..Len(listing_c) : PageToken(k) = page
         THEN CHOOSE k \in 2..Len(listing_c) : PageToken(k) = page
         ELSE 0

\* the "result" object of one offer-mapping-entries response; the last page
\* carries an empty or an absent nextPageToken (last)
Response(listing_c, page, last) ==
    LET k == PageIndex(listing_c, page)
    IN  [offerMappingEntries |->
            [i \in 1..Len(listing_c[k]) |-> [offer |-> [shopSku |-> listing_c[k][i]]]],
         paging |->
            [nextPageToken |-> IF k < Len(listing_c) THEN PageToken(k + 1) ELSE last]]

\* a test for the empty token only
FalsyEmptyOnly(page) == page = ""

\* `not page`
Falsy(page) == page = "" \/ page = None

\* ------------------------------------------------------------------- state
VARIABLES
    entry,           \* the function being run
    pc,              \* its position
    campaign,        \* campaign_id in use
    listing,         \* the marketplace: campaign -> pages of shopSku
    watch_remnants,  \* the inventory snapshot
    page,            \* get_offer_ids: page
    product_list,    \* get_offer_ids: product_list
    requests,        \* history: every answered get_product_list call
    offer_ids,       \* offer_ids
    known,           \* history: campaign -> offer_ids as passed to a reconciler
    stocks,          \* stocks
    prices,          \* prices
    queue,           \* batches of list(divide(...)) not yet iterated
    pushed,          \* history: every answered update_stocks / update_price call
    coroutines,      \* coroutine objects created and never awaited
    err,             \* exception raised, None when there is none
    failed,          \* history: campaign being synced when err was raised
    reported,        \* lines printed by the handlers of main
    result           \* value returned by the entry function

vars == <<entry, pc, campaign, listing, watch_remnants, page, product_list,
          requests, offer_ids, known, stocks, prices, queue, pushed,
          coroutines, err, failed, reported, result>>

WarehouseOf(c) == "warehouse_" \o c

NoKnown == [c \in Campaigns |-> <<>>]

\* an exception leaves the try block of main for its handlers, and leaves
\* any other entry function for its caller
Raise(e) ==
    /\ err' = e
    /\ failed' = campaign
    /\ pc' = IF entry = "main" THEN "except" ELSE "raised"

\* get_offer_ids, lines 156-161: one iteration of the paging loop
GetProductList ==
    /\ pc = "fetch"
    /\ \/ /\ PageIndex(listing[campaign], page) > 0
          /\ \E last \in {"", None} :
                LET some_prod == Response(listing[campaign], page, last)
                IN  /\ product_list' = product_list \o some_prod.offerMappingEntries
                    /\ page' = some_prod.paging.nextPageToken
                    /\ requests' = Append(requests,
                                          [campaign |-> campaign, page_token |-> page,
                                           result |-> some_prod])
                    /\ pc' = IF Falsy(page') THEN "collect" ELSE "fetch"
          /\ UNCHANGED <<err, failed>>
       \/ /\ \E e \in TransportErrors : Raise(e)
          /\ UNCHANGED <<product_list, page, requests>>
    /\ UNCHANGED <<entry, campaign, listing, watch_remnants, offer_ids, known,
                   stocks, prices, queue, pushed, coroutines, reported, result>>

\* get_offer_ids, lines 162-165, and the return to the caller
CollectOfferIds ==
    /\ pc = "collect"
    /\ offer_ids' = [i \in 1..Len(product_list) |-> product_list[i].offer.shopSku]
    /\ pc' = CASE entry = "get_offer_ids" -> "done"
               [] entry = "upload_prices" -> "create_prices"
               [] OTHER -> "create_stocks"
    /\ result' = IF entry = "get_offer_ids" THEN offer_ids' ELSE result
    /\ UNCHANGED <<entry, campaign, listing, watch_remnants, page, product_list,
                   requests, known, stocks, prices, queue, pushed, coroutines,
                   err, failed, reported>>

\* the call of create_stocks and list(divide(stocks, 2000))
CallCreateStocks ==
    /\ pc = "create_stocks"
    /\ known' = [known EXCEPT ![campaign] = offer_ids]
    /\ \E date \in Dates :
          LET r == CreateStocks(watch_remnants, offer_ids, WarehouseOf(campaign), date)
          IN  /\ offer_ids' = r.offer_ids
              /\ IF r.raised
                 THEN /\ Raise("ValueError")
                      /\ UNCHANGED <<stocks, queue, result>>
                 ELSE /\ stocks' = r.stocks
                      /\ UNCHANGED <<err, failed>>
                      /\ IF entry = "create_stocks"
                         THEN pc' = "done" /\ result' = stocks' /\ UNCHANGED queue
                         ELSE /\ pc' = "push_stocks"
                              /\ queue' = StockBatches(stocks')
                              /\ UNCHANGED result
    /\ UNCHANGED <<entry, campaign, listing, watch_remnants, page, product_list,
                   requests, prices, pushed, coroutines, reported>>

\* one iteration of `for some_stock in ...: update_stocks(some_stock, ...)`
UpdateStocks ==
    /\ pc = "push_stocks"
    /\ queue # <<>>
    /\ \/ /\ pushed' = Append(pushed, [call |-> "update_stocks", campaign |-> campaign,
                                       batch |-> Head(queue)])
          /\ queue' = Tail(queue)
          /\ UNCHANGED <<pc, err, failed>>
       \/ /\ \E e \in TransportErrors : Raise(e)
          /\ UNCHANGED <<pushed, queue>>
    /\ UNCHANGED <<entry, campaign, listing, watch_remnants, page, product_list,
                   requests, offer_ids, known, stocks, prices, coroutines,
                   reported, result>>

\* the stock loop is exhausted
StocksPushed ==
    /\ pc = "push_stocks"
    /\ queue = <<>>
    /\ pc' = IF entry = "main" THEN "call_upload_prices" ELSE "not_empty"
    /\ UNCHANGED <<entry, campaign, listing, watch_remnants, page, product_list,
                   requests, offer_ids, known, stocks, prices, queue, pushed,
                   coroutines, err, failed, reported, result>>

\* main, lines 312 and 321: upload_prices(...) is called without being
\* awaited; the call builds a coroutine object and runs nothing of its body.
\* After the FBS campaign main goes on with the DBS campaign.
CallUploadPrices ==
    /\ pc = "call_upload_prices"
    /\ coroutines' = coroutines + 1
    /\ IF campaign = "FBS"
       THEN /\ campaign' = "DBS"
            /\ pc' = "fetch"
            /\ page' = ""
            /\ product_list' = <<>>
       ELSE /\ pc' = "done"
            /\ UNCHANGED <<campaign, page, product_list>>
    /\ UNCHANGED <<entry, listing, watch_remnants, requests, offer_ids, known,
                   stocks, prices, queue, pushed, err, failed, reported, result>>

\* main, lines 322-327: each handler prints and main returns
Except ==
    /\ pc = "except"
    /\ reported' = Append(reported,
                          CASE err = "ReadTimeout" -> "timeout"
                            [] err = "ConnectionError" -> "connection"
                            [] OTHER -> "ERROR_2")
    /\ pc' = "done"
    /\ UNCHANGED <<entry, campaign, listing, watch_remnants, page, product_list,
                   requests, offer_ids, known, stocks, prices, queue, pushed,
                   coroutines, err, failed, result>>

\* upload_stocks, lines 289-292
NotEmpty ==
    /\ pc = "not_empty"
    /\ result' = <<SelectSeq(stocks, LAMBDA stock : stock.items[1].count # 0), stocks>>
    /\ pc' = "done"
    /\ UNCHANGED <<entry, campaign, listing, watch_remnants, page, product_list,
                   requests, offer_ids, known, stocks, prices, queue, pushed,
                   coroutines, err, failed, reported>>

\* the call of create_prices and list(divide(prices, 500))
CallCreatePrices ==
    /\ pc = "create_prices"
    /\ known' = [known EXCEPT ![campaign] = offer_ids]
    /\ prices' = CreatePrices(watch_remnants, offer_ids)
    /\ IF entry = "create_prices"
       THEN pc' = "done" /\ result' = prices' /\ UNCHANGED queue
       ELSE /\ pc' = "push_prices"
            /\ queue' = PriceBatches(prices')
            /\ UNCHANGED result
    /\ UNCHANGED <<entry, campaign, listing, watch_remnants, page, product_list,
                   requests, offer_ids, stocks, pushed, coroutines, err, failed,
                   reported>>

\* one iteration of `for some_prices in ...: update_price(some_prices, ...)`
UpdatePrice ==
    /\ pc = "push_prices"
    /\ queue # <<>>
    /\ \/ /\ pushed' = Append(pushed, [call |-> "update_price", campaign |-> campaign,
                                       batch |-> Head(queue)])
          /\ queue' = Tail(queue)
          /\ UNCHANGED <<pc, err, failed>>
       \/ /\ \E e \in TransportErrors : Raise(e)
          /\ UNCHANGED <<pushed, queue>>
    /\ UNCHANGED <<entry, campaign, listing, watch_remnants, page, product_list,
                   requests, offer_ids, known, stocks, prices, coroutines,
                   reported, result>>

\* upload_prices, line 281
PricesPushed ==
    /\ pc = "push_prices"
    /\ queue = <<>>
    /\ result' = prices
    /\ pc' = "done"
    /\ UNCHANGED <<entry, campaign, listing, watch_remnants, page, product_list,
                   requests, offer_ids, known, stocks, prices, queue, pushed,
                   coroutines, err, failed, reported>>

\* ----------------------------------------------------------- specifications
Pages == SeqsUpTo(Skus, MaxPageLen)
Listings == UNION {[1..k -> Pages] : k \in 1..MaxPages}
EmptyListing == <<<<>>>>

\* the pages the marketplace cuts a list of offers into
Paginate(ids) == IF ids = <<>> THEN EmptyListing ELSE Divide(ids, PageLimit)

Blank ==
    /\ page = ""
    /\ product_list = <<>>
    /\ requests = <<>>
    /\ known = NoKnown
    /\ stocks = <<>>
    /\ prices = <<>>
    /\ queue = <<>>
    /\ pushed = <<>>
    /\ coroutines = 0
    /\ err = None
    /\ failed = None
    /\ reported = <<>>
    /\ result = None

\* one run of main
Init ==
    /\ entry = "main"
    /\ pc = "fetch"
    /\ campaign = "FBS"
    /\ listing \in [Campaigns -> {Paginate(ids) : ids \in SeqsUpTo(Skus, MaxOffersMain)}]
    /\ watch_remnants \in SeqsUpTo(StockRecords, MaxInvMain)
    /\ offer_ids = <<>>
    /\ Blank

Next ==
    \/ GetProductList
    \/ CollectOfferIds
    \/ CallCreateStocks
    \/ UpdateStocks
    \/ StocksPushed
    \/ CallUploadPrices
    \/ Except

Spec == Init /\ [][Next]_vars

\* direct calls of the two reconcilers
InitRecon ==
    /\ entry \in {"create_stocks", "create_prices"}
    /\ pc = entry
    /\ campaign = "FBS"
    /\ listing = [c \in Campaigns |-> EmptyListing]
    /\ watch_remnants \in SeqsUpTo(IF entry = "create_stocks" THEN StockRecords
                                   ELSE PriceRecords, MaxInv)
    /\ offer_ids \in SeqsUpTo(Skus, MaxOffers)
    /\ Blank

NextRecon ==
    \/ CallCreateStocks
    \/ CallCreatePrices

SpecRecon == InitRecon /\ [][NextRecon]_vars

\* direct calls of get_offer_ids
InitPaging ==
    /\ entry = "get_offer_ids"
    /\ pc = "fetch"
    /\ campaign \in Campaigns
    /\ \E l \in Listings : listing = [c \in Campaigns |-> IF c = campaign THEN l
                                                         ELSE EmptyListing]
    /\ watch_remnants = <<>>
    /\ offer_ids = <<>>
    /\ Blank

NextPaging ==
    \/ GetProductList
    \/ CollectOfferIds

SpecPaging == InitPaging /\ [][NextPaging]_vars

FairSpecPaging == SpecPaging /\ WF_vars(NextPaging)

\* runs over large catalogues: main, and upload_stocks and upload_prices
\* driven to completion by an event loop
LargeLens(limit) ==
    {n \in 0..(MaxBatches * limit + Slack) :
        \E k \in 0..MaxBatches : \E d \in (0 - Slack)..Slack : n = k * limit + d}

LargeIds(n) == [i \in 1..n |-> "sku" \o ToString(i)]

InitLarge ==
    /\ entry \in {"main", "upload_stocks", "upload_prices"}
    /\ pc = "fetch"
    /\ campaign = "FBS"
    /\ \E n \in LargeLens(IF entry = "upload_prices" THEN PriceBatchLimit
                          ELSE StockBatchLimit) :
          /\ listing = [c \in Campaigns |-> IF c = campaign THEN Paginate(LargeIds(n))
                                             ELSE EmptyListing]
          /\ \E m \in IF entry = "upload_prices" THEN {n} ELSE {0, Min(n, 1)} :
                watch_remnants =
                    [i \in 1..m |-> [Kod |-> LargeIds(n)[i], Kolichestvo |-> <<"4", "2">>,
                                     Tsena |-> <<"2", "0", "0", "0">>]]
    /\ offer_ids = <<>>
    /\ Blank

NextLarge ==
    \/ GetProductList
    \/ CollectOfferIds
    \/ CallCreateStocks
    \/ UpdateStocks
    \/ StocksPushed
    \/ CallUploadPrices
    \/ Except
    \/ NotEmpty
    \/ CallCreatePrices
    \/ UpdatePrice
    \/ PricesPushed

SpecLarge == InitLarge /\ [][NextLarge]_vars

\* ------------------------------------------------------------- properties
\* vocabulary of the properties, stated from the inputs and the outputs

Occurrences(lst, x) == Cardinality({i \in 1..Len(lst) : lst[i] = x})

RECURSIVE Flatten(_)
Flatten(batches) ==
    IF batches = <<>> THEN <<>> ELSE Head(batches).batch \o Flatten(Tail(batches))

\* the answered calls of one kind for one campaign, in call order
Batches(call, c) == SelectSeq(pushed, LAMBDA p : p.call = call /\ p.campaign = c)

\* the quantity policy as a table over the quantity texts
IntegerTexts == { <<"4", "2">>, <<"-", "5">>, <<" ", "1">> }
Accepted(q) == q = <<">", "1", "0">> \/ q = <<"1">> \/ q \in IntegerTexts
ExpectedCount(q) ==
    CASE q = <<">", "1", "0">> -> 100
      [] q = <<"1">> -> 0
      [] q = <<"4", "2">> -> 42
      [] q = <<"-", "5">> -> 0 - 5
      [] q = <<" ", "1">> -> 1

\* record i meets its code in the working list: fewer earlier records carry
\* the code than the list ids holds copies of it
Honoured(i, ids) ==
    Cardinality({j \in 1..(i - 1) : watch_remnants[j].Kod = watch_remnants[i].Kod})
        < Occurrences(ids, watch_remnants[i].Kod)

HonouredIdx(ids) == {i \in 1..Len(watch_remnants) : Honoured(i, ids)}
Rank(i, idx) == Cardinality({j \in idx : j <= i})

StocksReturned == entry = "create_stocks" /\ pc = "done"
StocksRaised == entry = "create_stocks" /\ pc = "raised"
PricesReturned == entry = "create_prices" /\ pc = "done"

\* C1: the sku values returned by create_stocks are exactly the known offer
\* ids, each distinct known id in exactly one entry and no other sku.
C1_SkusAreExactlyKnownIds ==
    StocksReturned =>
        \A id \in Skus :
            Cardinality({k \in 1..Len(stocks) : stocks[k].sku = id})
                = IF In(id, known["FBS"]) THEN 1 ELSE 0

\* C2: every record matched to a known offer id gets the count of the
\* quantity policy (">10" gives 100, "1" gives 0, other integer text its
\* value), and a matched record whose text is no integer fails the call.
C2_QuantityPolicy ==
    LET idx == HonouredIdx(known["FBS"])
        bad == {i \in idx : ~Accepted(watch_remnants[i].Kolichestvo)}
    IN  /\ StocksReturned =>
              /\ bad = {}
              /\ \A i \in idx :
                    /\ Rank(i, idx) <= Len(stocks)
                    /\ stocks[Rank(i, idx)].sku = watch_remnants[i].Kod
                    /\ stocks[Rank(i, idx)].items[1].count
                          = ExpectedCount(watch_remnants[i].Kolichestvo)
        /\ StocksRaised => bad # {} /\ err = "ValueError"

C2_Witness ==
    /\ StocksReturned
    /\ Len(watch_remnants) = 2
    /\ Len(stocks) = 2
    /\ stocks[1].items[1].count = 100
    /\ watch_remnants[2].Kolichestvo = <<"1">>
    /\ Honoured(2, known["FBS"])

\* C3: every count returned by create_stocks is a non-negative integer.
C3_CountsNonNegative ==
    StocksReturned => \A k \in 1..Len(stocks) : stocks[k].items[1].count >= 0

C5_FailureIsolated ==
    (entry = "main" /\ pc = "done" /\ err \in TransportErrors /\ failed = "FBS")
        => \E k \in 1..Len(requests) : requests[k].campaign = "DBS"

\* C6: when main returns and no call failed, the stock payload and the price
\* payload of each campaign have been pushed in full.
C6_BothPayloadsPushed ==
    (entry = "main" /\ pc = "done" /\ err = None) =>
        \A c \in Campaigns :
            /\ Len(Flatten(Batches("update_stocks", c))) = Len(known[c])
            /\ Flatten(Batches("update_price", c)) = CreatePrices(watch_remnants, known[c])

\* batches cut payload into ceil(length / limit) non-empty parts, all but the
\* last of them full
Partitions(batches, payload, limit) ==
    /\ Flatten(batches) = payload
    /\ \A k \in 1..Len(batches) :
          /\ Len(batches[k].batch) >= 1
          /\ Len(batches[k].batch) <= limit
          /\ k < Len(batches) => Len(batches[k].batch) = limit
    /\ (Len(batches) - 1) * limit < Len(payload)
    /\ Len(payload) <= Len(batches) * limit

Pending == [k \in 1..Len(queue) |-> [batch |-> queue[k]]]

C8_FirstDuplicateOnly ==
    StocksReturned =>
        \A i \in 1..Len(watch_remnants) : \A j \in (i + 1)..Len(watch_remnants) :
            ( /\ watch_remnants[i].Kod = watch_remnants[j].Kod
              /\ In(watch_remnants[i].Kod, known["FBS"])
              /\ \A h \in 1..(i - 1) : watch_remnants[h].Kod # watch_remnants[i].Kod )
            => LET at == {k \in 1..Len(stocks) : stocks[k].sku = watch_remnants[i].Kod}
               IN  /\ Cardinality(at) = 1
                   /\ \A k \in at : stocks[k].items[1].count
                                        = ExpectedCount(watch_remnants[i].Kolichestvo)

\* C9: a matched record whose quantity is no sentinel and no integer text
\* fails the whole create_stocks call: the ValueError reaches main, no entry
\* list is returned and no stock batch is pushed for that campaign.
C9_InvalidQuantityAborts ==
    \A c \in Campaigns :
        (\E i \in HonouredIdx(known[c]) : ~Accepted(watch_remnants[i].Kolichestvo))
            => /\ err = "ValueError"
               /\ failed = c
               /\ pc \in {"except", "done"}
               /\ Batches("update_stocks", c) = <<>>
               /\ \A k \in 1..Len(stocks) : stocks[k].warehouseId # WarehouseOf(c)

C9_Witness ==
    /\ pc = "done"
    /\ err = "ValueError"
    /\ failed = "DBS"
    /\ Batches("update_stocks", "FBS") # <<>>
    /\ \E i \in HonouredIdx(known["DBS"]) : ~Accepted(watch_remnants[i].Kolichestvo)

\* the shopSku of every entry of the answered requests, in order
RECURSIVE FetchedSkus(_)
FetchedSkus(reqs) ==
    IF reqs = <<>> THEN <<>>
    ELSE LET entries == Head(reqs).result.offerMappingEntries
         IN  [i \in 1..Len(entries) |-> entries[i].offer.shopSku] \o FetchedSkus(Tail(reqs))

Exhausted(r) == r.result.paging.nextPageToken \in {"", None}

PagingOrder ==
    /\ \A k \in 1..Len(requests) :
          /\ requests[k].page_token =
                IF k = 1 THEN "" ELSE requests[k - 1].result.paging.nextPageToken
          /\ k < Len(requests) => ~Exhausted(requests[k])
    /\ (pc = "fetch" /\ requests # <<>>) => ~Exhausted(requests[Len(requests)])
    /\ pc \in {"collect", "done"} => requests # <<>> /\ Exhausted(requests[Len(requests)])
    /\ pc = "done" => result = FetchedSkus(requests)

====
